---- MODULE Spec2Model ----
(***************************************************************************)
(* Mesh / topology engine of aeolus-rs (crate grid): GridVertex,           *)
(* GridInterface, InterfaceCollection, GridCell, GridBlock,                *)
(* BlockCollection and the SU2 reader / writer.                            *)
(*                                                                         *)
(* Numbers.  Coordinates are drawn from a small integer lattice.  A unit   *)
(* vector of the code (t1, n) is kept as the integer vector it is the      *)
(* normalisation of; the zero vector stands for the NaN vector that        *)
(* normalising a zero-length vector produces.  A centre (mean of k         *)
(* positions) is kept as the pair (sum of positions, k).  Signs of dot     *)
(* products are then exact, and on this lattice a dot product that is not  *)
(* exactly zero is far above the 1e-14 tolerance of the code.              *)
(***************************************************************************)
EXTENDS Integers, Sequences, FiniteSets, TLC

VARIABLES
    interfaces,   \* InterfaceCollection.interfaces : hash -> GridInterface
    id_to_hash,   \* InterfaceCollection.id_to_hash : id -> hash
    ic_call,      \* the last call made on the InterfaceCollection and its result
    ref_reg,      \* reference registry keyed by the sorted pair <<max, min>>
    ref_ret,      \* what the reference registry returned for the last call
    su2_pc,       \* position of the read / write / read-back run
    su2_file,     \* the lines of the file given to read_su2
    su2_block,    \* the result of read_su2 on su2_file
    su2_written,  \* the lines write_su2 produced for su2_block
    su2_reread,   \* the result of read_su2 on su2_written
    blocks,       \* BlockCollection.blocks
    bc_call,      \* the last call made on the BlockCollection and its result
    geo_call      \* the last call of a geometry function and its result

ic_vars == <<interfaces, id_to_hash, ic_call, ref_reg, ref_ret>>

su2_vars == <<su2_pc, su2_file, su2_block, su2_written, su2_reread>>

bc_vars == <<blocks, bc_call>>

geo_vars == <<geo_call>>

vars == <<interfaces, id_to_hash, ic_call, ref_reg, ref_ret,
          su2_pc, su2_file, su2_block, su2_written, su2_reread,
          blocks, bc_call, geo_call>>

(***************************************************************************)
(* Bounds and input sets                                                   *)
(***************************************************************************)
\* largest number of interfaces registered in the InterfaceCollection
MaxInterfaces == 3

\* largest number of element lines in the NELEM section of an input file
MaxCells == 2

\* largest number of MARKER_TAG groups in the NMARK section of an input file
MaxMarkers == 2

\* largest number of edge lines in one MARKER_TAG group of an input file
MaxMarkerElems == 1

\* largest number of unrecognized lines inserted at one place of a file
MaxTextLines == 2

\* largest number of blocks loaded into the BlockCollection
MaxBlocks == 3

\* vertex ids used as arguments of the InterfaceCollection calls
IcVertexIds == {0, 10, 11, 111}

\* side of the integer lattice the arguments of the geometry calls sit on
GeoSide == 3

\* largest number of vertices in the list given to equal_to_vertices
MaxOtherVertices == 3

\* largest number of vertex ids given to hash
MaxHashIds == 3

\* vertex ids given to hash; the last two have ten digits
HashIds == {0, 1, 11, 1000000000, 2000000000}

\* largest number of vertices given to GridCell::new and new_from_vertices
MaxVertices == 5

\* width of the integer lattice the vertices of the collection sit on
LatticeWidth == 4

\* the result of a call: a value, or a panic (unwrap / expect / index / panic!)
Ok(v) == [ok |-> TRUE, val |-> v]
Panic == [ok |-> FALSE]
\* an error returned to the caller
Err(e) == [ok |-> FALSE, err |-> e]

\* unwrap / expect / `?`: go on with the value, or stop with the failure
Unwrap(r, then(_)) == IF r.ok THEN then(r.val) ELSE r

\* the values of a family of results, or a panic if one of them failed
UnwrapAll(rs) ==
    IF \E k \in DOMAIN rs : ~rs[k].ok THEN Panic
    ELSE Ok([k \in DOMAIN rs |-> rs[k].val])

(***************************************************************************)
(* Sequence helpers                                                        *)
(***************************************************************************)
Range(s) == {s[i] : i \in DOMAIN s}

RECURSIVE Insert(_, _)
Insert(x, s) ==
    IF s = <<>> THEN <<x>>
    ELSE IF x <= Head(s) THEN <<x>> \o s
    ELSE <<Head(s)>> \o Insert(x, Tail(s))

\* slice::sort on integers (ascending)
RECURSIVE Sort(_)
Sort(s) == IF s = <<>> THEN <<>> ELSE Insert(Head(s), Sort(Tail(s)))

\* slice::reverse
Reverse(s) == [i \in 1..Len(s) |-> s[Len(s) + 1 - i]]

\* usize::to_string : the decimal digits, most significant first
RECURSIVE UsizeToString(_)
UsizeToString(n) == IF n < 10 THEN <<n>> ELSE UsizeToString(n \div 10) \o <<n % 10>>

\* str::parse::<usize> of a string of decimal digits
RECURSIVE Parse(_)
Parse(s) == IF s = <<>> THEN 0 ELSE 10 * Parse(SubSeq(s, 1, Len(s) - 1)) + s[Len(s)]

RECURSIVE ConcatStrings(_)
ConcatStrings(ids) ==
    IF ids = <<>> THEN <<>> ELSE UsizeToString(Head(ids)) \o ConcatStrings(Tail(ids))

(***************************************************************************)
(* Vector3, GridVertex                                                     *)
(***************************************************************************)
Vector3(x, y, z) == <<x, y, z>>

VAdd(a, b) == <<a[1] + b[1], a[2] + b[2], a[3] + b[3]>>
VSub(a, b) == <<a[1] - b[1], a[2] - b[2], a[3] - b[3]>>
VScale(k, a) == <<k * a[1], k * a[2], k * a[3]>>
Dot(a, b) == a[1] * b[1] + a[2] * b[2] + a[3] * b[3]
Cross(a, b) == <<a[2] * b[3] - a[3] * b[2],
                 a[3] * b[1] - a[1] * b[3],
                 a[1] * b[2] - a[2] * b[1]>>

GridVertex(pos, id) == [pos |-> pos, id |-> id]

\* other.pos - self.pos
VectorTo(self, other) == VSub(other.pos, self.pos)

\* the centre as (sum of the positions, number of positions)
RECURSIVE SumPos(_)
SumPos(vertices) ==
    IF vertices = <<>> THEN <<0, 0, 0>>
    ELSE VAdd(Head(vertices).pos, SumPos(Tail(vertices)))

ComputeCentreOfVertices(vertices) == [sum |-> SumPos(vertices), n |-> Len(vertices)]

(***************************************************************************)
(* GridInterface                                                           *)
(***************************************************************************)
InterfaceShapeFromNumberOfVertices(n) == IF n = 2 THEN Ok("Line") ELSE Panic

NewFromVertices(vertices, id) ==
    IF ~InterfaceShapeFromNumberOfVertices(Len(vertices)).ok THEN Panic
    ELSE LET v0v1 == VectorTo(vertices[1], vertices[2])
             t2   == <<0, 0, 1>>
         IN Ok([vertex_ids |-> [i \in 1..Len(vertices) |-> vertices[i].id],
                area_sq    |-> Dot(v0v1, v0v1),
                n          |-> Cross(v0v1, t2),
                t1         |-> v0v1,
                t2         |-> t2,
                centre     |-> ComputeCentreOfVertices(vertices),
                shape      |-> "Line",
                id         |-> id])

\* every vertex of `other` is one of the interface's vertices
EqualToVertices(iface, other) ==
    \A k \in DOMAIN other :
        \E j \in DOMAIN iface.vertex_ids : iface.vertex_ids[j] = other[k].id

(***************************************************************************)
(* InterfaceCollection                                                     *)
(***************************************************************************)
\* the decimal digits of usize::MAX on a 64-bit target, 18446744073709551615
UsizeMaxDigits == <<1, 8, 4, 4, 6, 7, 4, 4, 0, 7, 3, 7, 0, 9, 5, 5, 1, 6, 1, 5>>

\* the digits without leading zeros
RECURSIVE StripZeros(_)
StripZeros(digits) ==
    IF Len(digits) > 1 /\ Head(digits) = 0 THEN StripZeros(Tail(digits)) ELSE digits

\* a <= b for numbers given by their digits without leading zeros
RECURSIVE DigitsLeq(_, _)
DigitsLeq(a, b) ==
    IF Len(a) # Len(b) THEN Len(a) < Len(b)
    ELSE IF a = <<>> THEN TRUE
    ELSE IF Head(a) # Head(b) THEN Head(a) < Head(b)
    ELSE DigitsLeq(Tail(a), Tail(b))

\* str::parse::<usize>().unwrap(): the number, by its digits; the empty
\* string and a number above usize::MAX are parse errors
ParseUsize(digits) ==
    IF digits = <<>> THEN Panic
    ELSE IF DigitsLeq(StripZeros(digits), UsizeMaxDigits) THEN Ok(StripZeros(digits))
    ELSE Panic

\* hash, with the result of the parse: the key by its digits
HashDigits_bug(vertex_ids) ==
    ParseUsize(ConcatStrings(Reverse(Sort(vertex_ids))) \o <<0>>)
HashDigits(vertex_ids) == ParseUsize(ConcatStrings(Reverse(Sort(vertex_ids))))

\* sort ascending, reverse, concatenate the decimal strings, parse: the key
\* as a number, for ids small enough that the parse succeeds
Hash(vertex_ids) == Parse(ConcatStrings(Reverse(Sort(vertex_ids))))

VertexIdsOf(vertices) == [i \in 1..Len(vertices) |-> vertices[i].id]

\* self.interfaces.len(), the id given to a newly registered interface
NextInterfaceId_bug(ifaces) == Cardinality(DOMAIN ifaces) + 1
NextInterfaceId(ifaces) == Cardinality(DOMAIN ifaces)

\* the vertex with a given id, on the lattice
LatticeVertex(id) == GridVertex(Vector3(id % LatticeWidth, id \div LatticeWidth, 0), id)

IcArguments ==
    {<<LatticeVertex(a), LatticeVertex(b)>> : a, b \in IcVertexIds} \
        {<<LatticeVertex(a), LatticeVertex(a)>> : a \in IcVertexIds}

\* the key of the reference registry
SortedPair(vertices) ==
    LET a == vertices[1].id
        b == vertices[2].id
    IN IF a >= b THEN <<a, b>> ELSE <<b, a>>

ExtendMap(f, k, v) == [x \in DOMAIN f \cup {k} |-> IF x = k THEN v ELSE f[x]]

EmptyMap == [x \in {} |-> 0]


(***************************************************************************)
(* GridCell                                                                *)
(***************************************************************************)
CellShapeFromNumberOfVertices_bug(n) ==
    IF n = 3 THEN Ok("Triangle")
    ELSE IF n >= 4 THEN Ok("Quadrilateral")
    ELSE Panic
CellShapeFromNumberOfVertices(n) ==
    IF n = 3 THEN Ok("Triangle")
    ELSE IF n = 4 THEN Ok("Quadrilateral")
    ELSE Panic

NumberOfVertices(shape) == IF shape = "Triangle" THEN 3 ELSE 4

CellShapeFromSu2ElementType(elem_type) ==
    IF elem_type = 5 THEN Ok("Triangle")
    ELSE IF elem_type = 9 THEN Ok("Quadrilateral")
    ELSE Panic

CellShapeToSu2ElementType(shape) == IF shape = "Triangle" THEN 5 ELSE 9

InterfaceShapeToSu2ElementType(shape) == 3

\* the vertex ids of each interface of a cell; indexing past the end of
\* `vertices` panics
CellShapeInterfaces(shape, vertices) ==
    IF Len(vertices) < NumberOfVertices(shape) THEN Panic
    ELSE IF shape = "Triangle"
         THEN Ok(<< <<vertices[1], vertices[2]>>,
                    <<vertices[2], vertices[3]>>,
                    <<vertices[3], vertices[1]>> >>)
         ELSE Ok(<< <<vertices[1], vertices[2]>>,
                    <<vertices[2], vertices[3]>>,
                    <<vertices[3], vertices[4]>>,
                    <<vertices[4], vertices[1]>> >>)

Abs(x) == IF x < 0 THEN -x ELSE x

\* twice the area: | a.x (b.y - c.y) + b.x (c.y - a.y) + c.x (a.y - b.y) |
TriangleArea(vertices) ==
    LET a == vertices[1].pos
        b == vertices[2].pos
        c == vertices[3].pos
    IN Abs(a[1] * (b[2] - c[2]) + b[1] * (c[2] - a[2]) + c[1] * (a[2] - b[2]))

\* twice the area, by the shoelace formula
QuadArea_bug(vertices) ==
    LET a == vertices[1].pos
        b == vertices[2].pos
        c == vertices[3].pos
        d == vertices[4].pos
        tmp_plus  == a[1] * b[2] + b[1] * c[2] + c[1] * d[2] + d[1] * a[2]
        tmp_minus == b[1] * a[2] + c[1] * b[2] + d[1] * c[2] + a[1] * d[2]
    IN tmp_plus - tmp_minus
QuadArea(vertices) ==
    LET a == vertices[1].pos
        b == vertices[2].pos
        c == vertices[3].pos
        d == vertices[4].pos
        tmp_plus  == a[1] * b[2] + b[1] * c[2] + c[1] * d[2] + d[1] * a[2]
        tmp_minus == b[1] * a[2] + c[1] * b[2] + d[1] * c[2] + a[1] * d[2]
    IN Abs(tmp_plus - tmp_minus)

CellShapeVolume(shape, vertices) ==
    IF shape = "Triangle" THEN TriangleArea(vertices) ELSE QuadArea(vertices)

\* 2 * point.n * (point - centre) . n : the dot product of the code times
\* the positive factor 2 * point.n * |v0v1|
DirectionDot(iface, point) ==
    Dot(VSub(VScale(2, point.sum), VScale(point.n, iface.centre.sum)), iface.n)

\* a NaN normal (zero-length interface) makes every comparison false, so
\* the result is Outwards; a zero dot product panics
ComputeDirection_bug(iface, point) ==
    IF DirectionDot(iface, point) > 0 THEN Ok("Inwards") ELSE Ok("Outwards")
ComputeDirection(iface, point) ==
    IF iface.n = <<0, 0, 0>> THEN Ok("Outwards")
    ELSE IF DirectionDot(iface, point) = 0 THEN Panic
    ELSE IF DirectionDot(iface, point) > 0 THEN Ok("Inwards")
    ELSE Ok("Outwards")

CellNew(ifaces, vertices, id) ==
    LET shape  == CellShapeFromNumberOfVertices(Len(vertices))
        centre == ComputeCentreOfVertices(vertices)
        dirs   == [k \in 1..Len(ifaces) |-> ComputeDirection(ifaces[k], centre)]
    IN IF ~shape.ok THEN Panic
       ELSE IF \E k \in 1..Len(ifaces) : ~dirs[k].ok THEN Panic
       ELSE Ok([vertex_ids |-> VertexIdsOf(vertices),
                interfaces |-> [k \in 1..Len(ifaces) |->
                                   [interface |-> ifaces[k].id,
                                    direction |-> dirs[k].val]],
                shape      |-> shape.val,
                volume_x2  |-> CellShapeVolume(shape.val, vertices),
                centre     |-> centre,
                id         |-> id])

CellInterfaceIds(cell) == [k \in 1..Len(cell.interfaces) |-> cell.interfaces[k].interface]

(***************************************************************************)
(* GridBlock                                                               *)
(***************************************************************************)
GridBlockNew_bug(vertices, ifaces, cells, boundaries, dimensions, id) ==
    [vertices |-> vertices, interfaces |-> ifaces,
     cells |-> IF id = 0 THEN cells ELSE <<>>,
     boundaries |-> boundaries, dimensions |-> dimensions, id |-> id]
GridBlockNew(vertices, ifaces, cells, boundaries, dimensions, id) ==
    [vertices |-> vertices, interfaces |-> ifaces, cells |-> cells,
     boundaries |-> boundaries, dimensions |-> dimensions, id |-> id]

(***************************************************************************)
(* SU2 files.  A file is a sequence of lines; a line is                    *)
(*   [k |-> "NDIME" | "NPOIN" | "NELEM" | "NMARK" | "MARKER_ELEMS", n]     *)
(*   [k |-> "MARKER_TAG", tag]          MARKER_TAG=<tag>                   *)
(*   [k |-> "nums", toks]               numbers separated by spaces        *)
(*   [k |-> "text"]                     any other line                     *)
(***************************************************************************)
KeyLine(k, n) == [k |-> k, n |-> n]
TagLine(tag)  == [k |-> "MARKER_TAG", tag |-> tag]
Nums(toks)    == [k |-> "nums", toks |-> toks]
TextLine      == [k |-> "text"]

Min(a, b) == IF a <= b THEN a ELSE b

Some(v) == [some |-> TRUE, val |-> v]
None == [some |-> FALSE]

\* the first dim tokens, parsed as reals; only those tokens are parsed
ParseVectorFromLineWithDim(line, dim) ==
    IF line.k = "nums" THEN Ok(SubSeq(line.toks, 1, Min(dim, Len(line.toks))))
    ELSE IF dim = 0 THEN Ok(<<>>)
    ELSE Panic

\* all tokens, parsed as usize
ParseVectorFromLine(line) ==
    IF line.k = "nums" /\ \A j \in DOMAIN line.toks : line.toks[j] >= 0
    THEN Ok(line.toks)
    ELSE Panic

Vector3NewFromVec(vector) ==
    IF Len(vector) = 1 THEN Ok(<<vector[1], 0, 0>>)
    ELSE IF Len(vector) = 2 THEN Ok(<<vector[1], vector[2], 0>>)
    ELSE IF Len(vector) = 3 THEN Ok(<<vector[1], vector[2], vector[3]>>)
    ELSE Panic

\* next_line: panics at the end of the file
HasNextLine(lines, i) == i <= Len(lines)

\* the NPOIN loop: point_i runs from 0; returns the vertices and the index
\* of the first line after the section
RECURSIVE ReadPoints(_, _, _, _, _, _)
ReadPoints(lines, i, n_points, dim, point_i, vertices) ==
    IF point_i = n_points THEN Ok([vertices |-> vertices, next |-> i])
    ELSE IF ~HasNextLine(lines, i) THEN Panic
    ELSE Unwrap(ParseVectorFromLineWithDim(lines[i], dim), LAMBDA coords :
         Unwrap(Vector3NewFromVec(coords), LAMBDA vertex_pos :
         ReadPoints(lines, i + 1, n_points, dim, point_i + 1,
                    Append(vertices, GridVertex(vertex_pos, point_i)))))

\* the NELEM loop
RECURSIVE ReadElems(_, _, _, _, _)
ReadElems(lines, i, left, connectivity, cell_vertices) ==
    IF left = 0
    THEN Ok([cell_connectivity |-> connectivity, cell_vertices |-> cell_vertices,
             next |-> i])
    ELSE IF ~HasNextLine(lines, i) THEN Panic
    ELSE Unwrap(ParseVectorFromLine(lines[i]), LAMBDA cell_definition :
         IF Len(cell_definition) = 0 THEN Panic
         ELSE Unwrap(CellShapeFromSu2ElementType(cell_definition[1]), LAMBDA shape :
              Unwrap(CellShapeInterfaces(shape, Tail(cell_definition)), LAMBDA edges :
              ReadElems(lines, i + 1, left - 1,
                        Append(connectivity, edges),
                        Append(cell_vertices, Tail(cell_definition))))))

RECURSIVE ReadBoundaryLines(_, _, _, _)
ReadBoundaryLines(lines, i, left, faces) ==
    IF left = 0 THEN Ok([faces |-> faces, next |-> i])
    ELSE IF ~HasNextLine(lines, i) THEN Panic
    ELSE Unwrap(ParseVectorFromLine(lines[i]), LAMBDA face :
         ReadBoundaryLines(lines, i + 1, left - 1, Append(faces, face)))

\* read_boundary: the MARKER_TAG line, the MARKER_ELEMS line, the edges
ReadBoundary(lines, i) ==
    IF ~HasNextLine(lines, i) THEN Panic
    ELSE IF lines[i].k # "MARKER_TAG" THEN Panic
    ELSE IF ~HasNextLine(lines, i + 1) THEN Panic
    ELSE IF lines[i + 1].k # "MARKER_ELEMS" THEN Panic
    ELSE Unwrap(ReadBoundaryLines(lines, i + 2, lines[i + 1].n, <<>>), LAMBDA r :
         Ok([tag |-> lines[i].tag, faces |-> r.faces, next |-> r.next]))

\* the NMARK loop; a repeated tag replaces the earlier group
RECURSIVE ReadMarkers(_, _, _, _)
ReadMarkers(lines, i, left, boundary_faces) ==
    IF left = 0 THEN Ok([boundary_faces |-> boundary_faces, next |-> i])
    ELSE Unwrap(ReadBoundary(lines, i), LAMBDA b :
         ReadMarkers(lines, b.next, left - 1,
                     ExtendMap(boundary_faces, b.tag, b.faces)))

InitialReadState ==
    [dimensions |-> None, n_cells |-> None, vertices |-> <<>>,
     cell_connectivity |-> <<>>, cell_vertices |-> <<>>,
     boundary_faces |-> EmptyMap]

\* the pass over the lines of the file
RECURSIVE ReadLoop(_, _, _)

\* a line that starts with none of the four keys: on to the next line
SkipLine_bug(lines, i, st) == Panic
SkipLine(lines, i, st) == ReadLoop(lines, i + 1, st)

\* the NELEM section: the cells by vertex ids only, whatever was read before
ElemSection_bug(lines, i, st) ==
    IF st.vertices = <<>> THEN Panic
    ELSE Unwrap(ReadElems(lines, i + 1, lines[i].n,
                          st.cell_connectivity, st.cell_vertices), LAMBDA r :
         ReadLoop(lines, r.next,
                  [st EXCEPT !.n_cells = Some(lines[i].n),
                             !.cell_connectivity = r.cell_connectivity,
                             !.cell_vertices = r.cell_vertices]))
ElemSection(lines, i, st) ==
    Unwrap(ReadElems(lines, i + 1, lines[i].n,
                     st.cell_connectivity, st.cell_vertices), LAMBDA r :
    ReadLoop(lines, r.next,
             [st EXCEPT !.n_cells = Some(lines[i].n),
                        !.cell_connectivity = r.cell_connectivity,
                        !.cell_vertices = r.cell_vertices]))

ReadLoop(lines, i, st) ==
    IF ~HasNextLine(lines, i) THEN Ok(st)
    ELSE CASE lines[i].k = "NDIME" ->
                  ReadLoop(lines, i + 1, [st EXCEPT !.dimensions = Some(lines[i].n)])
           [] lines[i].k = "NPOIN" ->
                  IF ~st.dimensions.some THEN Panic
                  ELSE Unwrap(ReadPoints(lines, i + 1, lines[i].n, st.dimensions.val,
                                         0, st.vertices), LAMBDA r :
                       ReadLoop(lines, r.next, [st EXCEPT !.vertices = r.vertices]))
           [] lines[i].k = "NELEM" -> ElemSection(lines, i, st)
           [] lines[i].k = "NMARK" ->
                  Unwrap(ReadMarkers(lines, i + 1, lines[i].n, st.boundary_faces),
                         LAMBDA r :
                  ReadLoop(lines, r.next,
                           [st EXCEPT !.boundary_faces = r.boundary_faces]))
           [] OTHER -> SkipLine(lines, i, st)

\* vertices[id] for every id of the list; an id past the end panics
VerticesAt_bug(vertices, ids) ==
    Ok([k \in 1..Len(ids) |->
           IF ids[k] >= Len(vertices) THEN GridVertex(<<0, 0, 0>>, ids[k])
           ELSE vertices[ids[k] + 1]])
VerticesAt(vertices, ids) ==
    IF \E k \in DOMAIN ids : ids[k] >= Len(vertices) THEN Panic
    ELSE Ok([k \in 1..Len(ids) |-> vertices[ids[k] + 1]])

\* the interfaces that equal_to_vertices accepts, by position
MatchingInterfaces(ifaces, vertices) ==
    {k \in 1..Len(ifaces) : EqualToVertices(ifaces[k], vertices)}

FirstOf(S) == CHOOSE k \in S : \A j \in S : k <= j

\* add_interface: the id of the first matching interface, else push a new one
AddInterface_bug(ifaces, vertices) ==
    Unwrap(NewFromVertices(vertices, Len(ifaces)), LAMBDA new :
    Ok([interfaces |-> Append(ifaces, new), id |-> Len(ifaces)]))
AddInterface(ifaces, vertices) ==
    IF MatchingInterfaces(ifaces, vertices) # {}
    THEN Ok([interfaces |-> ifaces,
             id |-> ifaces[FirstOf(MatchingInterfaces(ifaces, vertices))].id])
    ELSE Unwrap(NewFromVertices(vertices, Len(ifaces)), LAMBDA new :
         Ok([interfaces |-> Append(ifaces, new), id |-> Len(ifaces)]))

\* find_interface_with_vertices: the id of the first matching interface
FindInterfaceWithVertices(ifaces, vertices) ==
    IF MatchingInterfaces(ifaces, vertices) # {}
    THEN Ok(ifaces[FirstOf(MatchingInterfaces(ifaces, vertices))].id)
    ELSE Panic

\* the inner loop over the edges of one cell
RECURSIVE AddCellInterfaces(_, _, _, _, _)
AddCellInterfaces(vertices, cell_interfaces, k, ifaces, ids) ==
    IF k > Len(cell_interfaces) THEN Ok([interfaces |-> ifaces, ids |-> ids])
    ELSE Unwrap(VerticesAt(vertices, cell_interfaces[k]), LAMBDA interface_vertices :
         Unwrap(AddInterface(ifaces, interface_vertices), LAMBDA r :
         AddCellInterfaces(vertices, cell_interfaces, k + 1,
                           r.interfaces, Append(ids, r.id))))

\* the loop over the cells: resolve the interfaces, then construct the cell
RECURSIVE BuildCells(_, _, _, _)
BuildCells(st, i, ifaces, cells) ==
    IF i > Len(st.cell_connectivity) THEN Ok([interfaces |-> ifaces, cells |-> cells])
    ELSE Unwrap(AddCellInterfaces(st.vertices, st.cell_connectivity[i], 1, ifaces, <<>>),
                LAMBDA r :
         Unwrap(VerticesAt(st.vertices, st.cell_vertices[i]), LAMBDA this_cell_vertices :
         Unwrap(CellNew([k \in 1..Len(r.ids) |-> r.interfaces[r.ids[k] + 1]],
                        this_cell_vertices, i - 1), LAMBDA cell :
         BuildCells(st, i + 1, r.interfaces, Append(cells, cell)))))

\* the interface id of one boundary line
BoundaryInterface(vertices, ifaces, vertex_ids_in_face) ==
    IF Len(vertex_ids_in_face) = 0 THEN Panic
    ELSE Unwrap(VerticesAt(vertices, Tail(vertex_ids_in_face)), LAMBDA vertices_in_face :
         FindInterfaceWithVertices(ifaces, vertices_in_face))

\* the interface ids of one boundary group
BoundaryInterfaces(vertices, ifaces, faces_on_boundary) ==
    UnwrapAll([k \in 1..Len(faces_on_boundary) |->
                  BoundaryInterface(vertices, ifaces, faces_on_boundary[k])])

\* the interface ids of every boundary group, by tag
Boundaries(vertices, ifaces, boundary_faces) ==
    UnwrapAll([tag \in DOMAIN boundary_faces |->
                  BoundaryInterfaces(vertices, ifaces, boundary_faces[tag])])

\* `as u8`
AsU8(n) == n % 256

\* read_su2 on the lines of an opened file
ReadSu2(lines, id) ==
    Unwrap(ReadLoop(lines, 1, InitialReadState), LAMBDA st :
    IF ~st.n_cells.some THEN Panic
    ELSE Unwrap(BuildCells(st, 1, <<>>, <<>>), LAMBDA built :
         Unwrap(Boundaries(st.vertices, built.interfaces, st.boundary_faces),
                LAMBDA boundaries :
         IF ~st.dimensions.some THEN Panic
         ELSE Ok(GridBlockNew(st.vertices, built.interfaces, built.cells, boundaries,
                              AsU8(st.dimensions.val), id)))))

\* the coordinates written for one vertex: x, y, and z when dimensions is 3
CoordinateLine_bug(vertex, dimensions) ==
    Nums(<<vertex.pos[1], vertex.pos[2], vertex.pos[3]>>)
CoordinateLine(vertex, dimensions) ==
    IF dimensions = 3
    THEN Nums(<<vertex.pos[1], vertex.pos[2], vertex.pos[3]>>)
    ELSE Nums(<<vertex.pos[1], vertex.pos[2]>>)

RECURSIVE MarkerLines(_, _)
MarkerLines(block, tags) ==
    IF tags = <<>> THEN <<>>
    ELSE LET ids == block.boundaries[Head(tags)]
         IN << TagLine(Head(tags)), KeyLine("MARKER_ELEMS", Len(ids)) >>
            \o [k \in 1..Len(ids) |->
                   LET iface == block.interfaces[ids[k] + 1]
                   IN Nums(<<InterfaceShapeToSu2ElementType(iface.shape)>>
                           \o iface.vertex_ids)]
            \o MarkerLines(block, Tail(tags))

\* write_su2; `tags` is the order in which the HashMap yields the boundaries
WriteSu2(block, tags) ==
    << KeyLine("NDIME", block.dimensions) >>
    \o << KeyLine("NPOIN", Len(block.vertices)) >>
    \o [k \in 1..Len(block.vertices) |-> CoordinateLine(block.vertices[k], block.dimensions)]
    \o << KeyLine("NELEM", Len(block.cells)) >>
    \o [k \in 1..Len(block.cells) |->
           Nums(<<CellShapeToSu2ElementType(block.cells[k].shape)>>
                \o block.cells[k].vertex_ids)]
    \o << KeyLine("NMARK", Cardinality(DOMAIN block.boundaries)) >>
    \o MarkerLines(block, tags)

\* the orders in which a HashMap with these keys can be iterated
RECURSIVE Orders(_)
Orders(S) ==
    IF S = {} THEN {<<>>}
    ELSE UNION {{<<x>> \o o : o \in Orders(S \ {x})} : x \in S}

(***************************************************************************)
(* Input files of the read / write / read-back run: NDIME, the four        *)
(* corners of a trapezoid, an NELEM section and an NMARK section.          *)
(***************************************************************************)
SeqsUpTo(S, n) == UNION {[1..k -> S] : k \in 0..n}

NdimeValues == {2, 3}

\* number of coordinates on each point line; the third one is z = 1
CoordTokens == {2, 3}

\* corners in counter-clockwise order; the centroid lies on no diagonal
Corners == << <<0, 0>>, <<2, 0>>, <<1, 1>>, <<0, 1>> >>

PointLines(ntok) ==
    [k \in 1..Len(Corners) |->
        IF ntok = 3 THEN Nums(Corners[k] \o <<1>>) ELSE Nums(Corners[k])]

\* two triangles sharing the edge {0,2}, the trapezoid as one quadrilateral,
\* a triangle with a repeated vertex, a triangle with a vertex that is not
\* in the file, a triangle code followed by four vertex ids
ElemLines == { <<5, 0, 1, 2>>, <<5, 0, 2, 3>>, <<9, 0, 1, 2, 3>>,
               <<5, 0, 1, 1>>, <<5, 1, 2, 4>>, <<5, 0, 1, 2, 3>> }

\* an outer edge, the diagonal {0,2}, a line with a single vertex
BoundaryLines == { <<3, 0, 1>>, <<3, 2, 0>>, <<3, 1>> }

Tags == {"a", "b"}

MarkerGroups == [tag : Tags, faces : SeqsUpTo(BoundaryLines, MaxMarkerElems)]

RECURSIVE GroupLines(_)
GroupLines(groups) ==
    IF groups = <<>> THEN <<>>
    ELSE << TagLine(Head(groups).tag), KeyLine("MARKER_ELEMS", Len(Head(groups).faces)) >>
         \o [k \in 1..Len(Head(groups).faces) |-> Nums(Head(groups).faces[k])]
         \o GroupLines(Tail(groups))

Su2File(ndime, ntok, elems, groups) ==
    << KeyLine("NDIME", ndime), KeyLine("NPOIN", Len(Corners)) >>
    \o PointLines(ntok)
    \o << KeyLine("NELEM", Len(elems)) >>
    \o [k \in 1..Len(elems) |-> Nums(elems[k])]
    \o << KeyLine("NMARK", Len(groups)) >>
    \o GroupLines(groups)

\* the two triangles that share the edge {0,2}
TwoTriangles == << <<5, 0, 1, 2>>, <<5, 0, 2, 3>> >>

\* a file whose points come in two NPOIN sections of two points each
SplitPointsFile(elems) ==
    << KeyLine("NDIME", 2), KeyLine("NPOIN", 2) >>
    \o SubSeq(PointLines(2), 1, 2)
    \o << KeyLine("NPOIN", 2) >>
    \o SubSeq(PointLines(2), 3, 4)
    \o << KeyLine("NELEM", Len(elems)) >>
    \o [k \in 1..Len(elems) |-> Nums(elems[k])]
    \o << KeyLine("NMARK", 0) >>

SplitPointsFiles == { SplitPointsFile(elems) : elems \in SeqsUpTo(ElemLines, MaxCells) }

\* files with any cells and no markers, and files with the two triangles
\* and any markers
WholeFiles ==
    { Su2File(ndime, ntok, elems, <<>>) :
        ndime \in NdimeValues, ntok \in CoordTokens,
        elems \in SeqsUpTo(ElemLines, MaxCells) }
    \cup { Su2File(2, 2, TwoTriangles, groups) :
              groups \in SeqsUpTo(MarkerGroups, MaxMarkers) }

\* the two triangles with one marker of one edge
MarkedFile(face) == Su2File(2, 2, TwoTriangles, << [tag |-> "a", faces |-> << face >>] >>)

\* every proper prefix of the file: the file cut off after k lines
TruncatedFiles(file) == { SubSeq(file, 1, k) : k \in 0..(Len(file) - 1) }

\* the file with its NDIME line moved behind the points
NpoinFirstFile(file) ==
    SubSeq(file, 2, 2 + Len(Corners)) \o << file[1] >>
    \o SubSeq(file, 3 + Len(Corners), Len(file))

\* files that are cut short, declare NPOIN before NDIME, or mark the
\* diagonal {1,3} no cell has as an edge
BrokenFiles ==
    TruncatedFiles(MarkedFile(<<3, 0, 1>>))
    \cup { NpoinFirstFile(MarkedFile(<<3, 0, 1>>)), MarkedFile(<<3, 1, 3>>) }

\* lines that start with none of NDIME=, NPOIN=, NELEM=, NMARK=
SkippedLines == { TextLine, TagLine("a"), Nums(<<5, 0, 1, 2>>) }

Pads == SeqsUpTo(SkippedLines, MaxTextLines) \ { <<>> }

\* the file with the lines of pad inserted before line p
InsertAt(file, p, pad) == SubSeq(file, 1, p - 1) \o pad \o SubSeq(file, p, Len(file))

\* the files that get lines inserted
PadBases == { MarkedFile(<<3, 0, 1>>), Su2File(3, 3, << <<9, 0, 1, 2, 3>> >>, <<>>) }

\* line p of the file follows a section header closely enough to be read
\* as one of its counted lines; the groups of NMARK run to the end of the file
InsideSection(file, p) ==
    \E k \in 1..Len(file) :
        /\ k < p
        /\ \/ file[k].k \in {"NPOIN", "NELEM", "MARKER_ELEMS"} /\ p <= k + file[k].n
           \/ file[k].k = "NMARK" /\ file[k].n > 0 /\ p <= Len(file)

\* the places before a line, or after the last one, that are in no section
OutsidePlaces(file) == { p \in 1..(Len(file) + 1) : ~InsideSection(file, p) }

PaddedFiles ==
    UNION { { InsertAt(file, p, pad) : p \in OutsidePlaces(file), pad \in Pads } :
            file \in PadBases }

\* the two triangles and the first of them once more: three cells on the
\* edges {0,1}, {1,2} and {2,0}
OverlappingCells == TwoTriangles \o << <<5, 0, 1, 2>> >>

OverlapFiles == { Su2File(2, 2, OverlappingCells, <<>>) }

\* the four sections of a file, by key
Sections(ndime, ntok, elems, groups) ==
    [key \in {"NDIME", "NPOIN", "NELEM", "NMARK"} |->
        CASE key = "NDIME" -> << KeyLine("NDIME", ndime) >>
          [] key = "NPOIN" -> << KeyLine("NPOIN", Len(Corners)) >> \o PointLines(ntok)
          [] key = "NELEM" -> << KeyLine("NELEM", Len(elems)) >>
                              \o [k \in 1..Len(elems) |-> Nums(elems[k])]
          [] key = "NMARK" -> << KeyLine("NMARK", Len(groups)) >> \o GroupLines(groups)]

\* the sections one after the other in the given order of the keys
RECURSIVE Assemble(_, _)
Assemble(sections, order) ==
    IF order = <<>> THEN <<>>
    ELSE sections[Head(order)] \o Assemble(sections, Tail(order))

\* the order of Su2File
UsualOrder == << "NDIME", "NPOIN", "NELEM", "NMARK" >>

\* the orders of the four sections in which NDIME comes before NPOIN
SectionOrders ==
    { o \in Orders({"NDIME", "NPOIN", "NELEM", "NMARK"}) :
        \E i, j \in DOMAIN o : i < j /\ o[i] = "NDIME" /\ o[j] = "NPOIN" }

\* the contents that are written in every order of the sections
ReorderBases ==
    { Sections(2, 2, elems, groups) :
        elems \in { TwoTriangles, << <<9, 0, 1, 2, 3>> >> },
        groups \in { <<>>,
                     << [tag |-> "a", faces |-> << <<3, 0, 1>> >>] >>,
                     << [tag |-> "a", faces |-> << <<3, 0, 1>> >>],
                        [tag |-> "b", faces |-> << <<3, 2, 3>> >>] >> } }
    \cup { Sections(3, 3, TwoTriangles, <<>>) }

ReorderedFiles ==
    { Assemble(sections, order) : sections \in ReorderBases, order \in SectionOrders }

Su2Files ==
    WholeFiles \cup SplitPointsFiles \cup BrokenFiles \cup PaddedFiles \cup OverlapFiles
    \cup ReorderedFiles

(***************************************************************************)
(* The fixture tests/data/square.su2: 16 lattice points, 9 quadrilaterals  *)
(* in row order, 4 boundary tags of 3 edges each.                          *)
(***************************************************************************)
SquareSide == 4

SquarePoints ==
    [k \in 1..(SquareSide * SquareSide) |->
        Nums(<<(k - 1) % SquareSide, (k - 1) \div SquareSide>>)]

\* the cell in column c, row r (from 0): [v, v+1, v+1+side, v+side]
SquareCell(c, r) ==
    LET v == c + SquareSide * r
    IN Nums(<<9, v, v + 1, v + 1 + SquareSide, v + SquareSide>>)

SquareCells ==
    [k \in 1..((SquareSide - 1) * (SquareSide - 1)) |->
        SquareCell((k - 1) % (SquareSide - 1), (k - 1) \div (SquareSide - 1))]

SquareSu2 ==
    << KeyLine("NDIME", 2), KeyLine("NPOIN", SquareSide * SquareSide) >>
    \o SquarePoints
    \o << KeyLine("NELEM", (SquareSide - 1) * (SquareSide - 1)) >>
    \o SquareCells
    \o << KeyLine("NMARK", 4),
          TagLine("slip_wall_bottom"), KeyLine("MARKER_ELEMS", 3),
          Nums(<<3, 0, 1>>), Nums(<<3, 1, 2>>), Nums(<<3, 2, 3>>),
          TagLine("outflow"), KeyLine("MARKER_ELEMS", 3),
          Nums(<<3, 3, 7>>), Nums(<<3, 7, 11>>), Nums(<<3, 11, 15>>),
          TagLine("slip_wall_top"), KeyLine("MARKER_ELEMS", 3),
          Nums(<<3, 12, 13>>), Nums(<<3, 13, 14>>), Nums(<<3, 14, 15>>),
          TagLine("inflow"), KeyLine("MARKER_ELEMS", 3),
          Nums(<<3, 0, 4>>), Nums(<<3, 4, 8>>), Nums(<<3, 8, 12>>) >>

(***************************************************************************)
(* BlockCollection                                                         *)
(***************************************************************************)
\* a path: the file stem and Path::extension()
FilePath(stem, ext) == [stem |-> stem, ext |-> ext]

\* GridFileType::from_file_name
FromFileName_bug(file_path) ==
    IF file_path.ext = Some("grid") THEN Ok("Native")
    ELSE IF file_path.ext.some THEN Ok("Su2")
    ELSE Err([name |-> file_path, ext |-> file_path.ext])
FromFileName(file_path) ==
    IF file_path.ext = Some("su2") THEN Ok("Su2")
    ELSE IF file_path.ext = Some("grid") THEN Ok("Native")
    ELSE Err([name |-> file_path, ext |-> file_path.ext])

\* the files on disk that add_block is called with
Disk ==
    (FilePath("tris", Some("su2")) :>
        Su2File(2, 2, TwoTriangles,
                << [tag |-> "a", faces |-> << <<3, 0, 1>> >>] >>))
    @@ (FilePath("quad", Some("grid")) :>
        Su2File(3, 3, << <<9, 0, 1, 2, 3>> >>, <<>>))
    @@ (FilePath("marked", Some("su2")) :>
        Su2File(2, 2, TwoTriangles,
                << [tag |-> "a", faces |-> << <<3, 0, 1>> >>],
                   [tag |-> "b", faces |-> << <<3, 2, 3>> >>] >>))
    @@ (FilePath("flat", Some("su2")) :>
        Su2File(2, 2, << <<5, 0, 1, 1>> >>, <<>>))
    @@ (FilePath("range", Some("grid")) :>
        Su2File(2, 2, << <<5, 0, 1, 2>>, <<5, 1, 2, 4>> >>, <<>>))
    @@ (FilePath("tris", Some("txt")) :>
        Su2File(2, 2, << <<5, 0, 1, 2>> >>, <<>>))
    @@ (FilePath("tris", None) :>
        Su2File(2, 2, << <<5, 0, 1, 2>> >>, <<>>))

\* the paths add_block is called with; the last one names no file
Paths == DOMAIN Disk \cup {FilePath("absent", Some("su2"))}

\* the paths write_block is called with
OutPaths ==
    { FilePath("block_0000", Some("grid")),
      FilePath("out", Some("txt")), FilePath("out", None) }

\* the file add_block opens: none when from_file_name returns the error
OpenedBy(file_path) ==
    IF FromFileName(file_path).ok THEN Some(file_path) ELSE None

\* File::open, then read_su2 on the lines
OpenAndReadSu2(file_path, id) ==
    IF file_path \notin DOMAIN Disk THEN Err("NotFound")
    ELSE ReadSu2(Disk[file_path], id)

\* self.blocks.len(), the id given to the block being loaded
NumberBlocks_bug(blks) == Len(blks) + 1
NumberBlocks(blks) == Len(blks)

\* the `?` after read_su2, then self.blocks.push(block)
PushBlock_bug(blks, result) ==
    IF result.ok THEN Append(blks, result.val)
    ELSE IF blks = <<>> THEN blks
    ELSE SubSeq(blks, 1, Len(blks) - 1)
PushBlock(blks, result) ==
    IF result.ok THEN Append(blks, result.val) ELSE blks

GetBlock(id) == IF id < Len(blocks) THEN Ok(blocks[id + 1]) ELSE Panic

(***************************************************************************)
(* State machine                                                           *)
(***************************************************************************)
ICInit ==
    /\ interfaces = EmptyMap
    /\ id_to_hash = EmptyMap
    /\ ic_call = [op |-> "none"]
    /\ ref_reg = EmptyMap
    /\ ref_ret = [op |-> "none"]

Init ==
    /\ ICInit
    /\ su2_pc = "start"
    /\ su2_file = <<>>
    /\ su2_block = [op |-> "none"]
    /\ su2_written = <<>>
    /\ su2_reread = [op |-> "none"]
    /\ blocks = <<>>
    /\ bc_call = [op |-> "none"]
    /\ geo_call = [op |-> "none"]

AddOrRetrieve(vertices) ==
    LET hash == Hash(VertexIdsOf(vertices))
        key  == SortedPair(vertices)
        isNew == hash \notin DOMAIN interfaces
        interface == NewFromVertices(vertices, NextInterfaceId(interfaces)).val
    IN /\ isNew => Cardinality(DOMAIN interfaces) < MaxInterfaces
       /\ key \notin DOMAIN ref_reg => Cardinality(DOMAIN ref_reg) < MaxInterfaces
       /\ interfaces' = IF isNew THEN ExtendMap(interfaces, hash, interface) ELSE interfaces
       /\ id_to_hash' = IF isNew THEN ExtendMap(id_to_hash, interface.id, hash) ELSE id_to_hash
       /\ ic_call' = [op |-> "add_or_retrieve", vertices |-> vertices,
                      len_before |-> Cardinality(DOMAIN interfaces),
                      ret |-> Ok(interfaces'[hash].id)]
       /\ ref_reg' = IF key \in DOMAIN ref_reg THEN ref_reg
                     ELSE ExtendMap(ref_reg, key, Cardinality(DOMAIN ref_reg))
       /\ ref_ret' = Ok(ref_reg'[key])
       /\ UNCHANGED <<su2_vars, bc_vars, geo_vars>>

FindInterface(vertices) ==
    LET hash == Hash(VertexIdsOf(vertices))
        key  == SortedPair(vertices)
    IN /\ ic_call' = [op |-> "find_interface", vertices |-> vertices,
                      len_before |-> Cardinality(DOMAIN interfaces),
                      ret |-> IF hash \in DOMAIN interfaces
                              THEN Ok(interfaces[hash].id) ELSE Panic]
       /\ ref_ret' = IF key \in DOMAIN ref_reg THEN Ok(ref_reg[key]) ELSE Panic
       /\ UNCHANGED <<interfaces, id_to_hash, ref_reg>>
       /\ UNCHANGED <<su2_vars, bc_vars, geo_vars>>

InterfaceWithId(id) == interfaces[id_to_hash[id]]

\* the values of the map, sorted by id (Ord for GridInterface compares ids)
RECURSIVE SortById(_)
SortById(S) ==
    IF S = {} THEN <<>>
    ELSE LET m == CHOOSE x \in S : \A y \in S : x.id <= y.id
         IN <<m>> \o SortById({y \in S : y.id # m.id})

Interfaces == SortById({interfaces[h] : h \in DOMAIN interfaces})

ICNext ==
    \/ \E vertices \in IcArguments : AddOrRetrieve(vertices)
    \/ \E vertices \in IcArguments : FindInterface(vertices)

SpecInterfaces == Init /\ [][ICNext]_vars

\* read_su2 on an input file
Su2Read ==
    /\ su2_pc = "start"
    /\ \E file \in Su2Files \cup {SquareSu2} :
          /\ su2_file' = file
          /\ su2_block' = ReadSu2(file, 0)
    /\ su2_pc' = IF su2_block'.ok THEN "loaded" ELSE "panicked"
    /\ UNCHANGED <<su2_written, su2_reread>>
    /\ UNCHANGED <<ic_vars, bc_vars, geo_vars>>

\* write_su2 of the block
Su2Write ==
    /\ su2_pc = "loaded"
    /\ \E tags \in Orders(DOMAIN su2_block.val.boundaries) :
          su2_written' = WriteSu2(su2_block.val, tags)
    /\ su2_pc' = "written"
    /\ UNCHANGED <<su2_file, su2_block, su2_reread>>
    /\ UNCHANGED <<ic_vars, bc_vars, geo_vars>>

\* read_su2 on the file that was written
Su2ReadBack ==
    /\ su2_pc = "written"
    /\ su2_reread' = ReadSu2(su2_written, 0)
    /\ su2_pc' = "read_back"
    /\ UNCHANGED <<su2_file, su2_block, su2_written>>
    /\ UNCHANGED <<ic_vars, bc_vars, geo_vars>>

Su2Next == Su2Read \/ Su2Write \/ Su2ReadBack

SpecSu2 == Init /\ [][Su2Next]_vars

\* from_file_name, then the reader of the format with the id of the block
ReadBlockFile(file_path, id) ==
    Unwrap(FromFileName(file_path), LAMBDA ext : OpenAndReadSu2(file_path, id))

\* the end of add_block: the push, and the record of the call
StoreBlock(file_path, result) ==
    /\ result.ok => Len(blocks) < MaxBlocks
    /\ blocks' = PushBlock(blocks, result)
    /\ bc_call' = [op |-> "add_block", path |-> file_path,
                   len_before |-> Len(blocks),
                   file_type |-> FromFileName(file_path),
                   opened |-> OpenedBy(file_path),
                   ret |-> IF result.ok THEN Ok("unit") ELSE result]
    /\ UNCHANGED <<ic_vars, su2_vars, geo_vars>>

\* BlockCollection::add_block
AddBlock(file_path) ==
    StoreBlock(file_path, ReadBlockFile(file_path, NumberBlocks(blocks)))

\* the record of a write_block call: the file it created, if any
WriteBlockCall(file_name, result) ==
    [op |-> "write_block", path |-> file_name,
     len_before |-> Len(blocks),
     file_type |-> FromFileName(file_name),
     created |-> IF result.ok THEN Some([path |-> file_name, lines |-> result.val])
                 ELSE None,
     ret |-> IF result.ok THEN Ok("unit") ELSE result]

\* write_block on a block of the collection: from_file_name(file_name)?,
\* then write_su2, which walks the boundaries in the order of the HashMap
WriteBlock(i, file_name) ==
    /\ i \in 1..Len(blocks)
    /\ IF FromFileName(file_name).ok
       THEN \E tags \in Orders(DOMAIN blocks[i].boundaries) :
               bc_call' = WriteBlockCall(file_name, Ok(WriteSu2(blocks[i], tags)))
       ELSE bc_call' = WriteBlockCall(file_name, FromFileName(file_name))
    /\ UNCHANGED blocks
    /\ UNCHANGED <<ic_vars, su2_vars, geo_vars>>

\* GridFileType::extension
Extension_bug(file_type) == IF file_type = "Native" THEN "native" ELSE "su2"
Extension(file_type) == IF file_type = "Native" THEN "grid" ELSE "su2"

\* {:04} : the decimal digits, padded with zeros on the left up to the width
ZeroPad(digits, width) ==
    IF Len(digits) >= width THEN digits
    ELSE [k \in 1..width |->
             IF k <= width - Len(digits) THEN 0 ELSE digits[k - (width - Len(digits))]]

\* format!("block_{:04}.{}", block.id(), ext) as the last component of the path
BlockFileName(id) ==
    FilePath([prefix |-> "block_", digits |-> ZeroPad(UsizeToString(id), 4)],
             Some(Extension("Native")))

\* what write_block leaves for one block: the name of the file and what
\* add_block gives on the lines written, for every order of the HashMap
WrittenFiles(block) ==
    { [path |-> BlockFileName(block.id),
       file_type |-> FromFileName(BlockFileName(block.id)),
       loads_back |-> ReadSu2(WriteSu2(block, tags), block.id).ok] :
        tags \in Orders(DOMAIN block.boundaries) }

\* the blocks written before the first write_block that returns an error
WrittenBefore(blks) ==
    IF \E i \in 1..Len(blks) : ~FromFileName(BlockFileName(blks[i].id)).ok
    THEN FirstOf({ i \in 1..Len(blks) : ~FromFileName(BlockFileName(blks[i].id)).ok }) - 1
    ELSE Len(blks)

\* the files write_block can leave for the blocks, one after the other
RECURSIVE WrittenFileLists(_)
WrittenFileLists(blks) ==
    IF blks = <<>> THEN { <<>> }
    ELSE { <<file>> \o rest :
             file \in WrittenFiles(Head(blks)), rest \in WrittenFileLists(Tail(blks)) }

\* BlockCollection::write_blocks: write_block for every block in order,
\* `?` on each
WriteBlocks(grid_dir) ==
    /\ \E files \in WrittenFileLists(SubSeq(blocks, 1, WrittenBefore(blocks))) :
          bc_call' =
              [op |-> "write_blocks", dir |-> grid_dir,
               len_before |-> Len(blocks),
               files |-> files,
               ret |-> IF WrittenBefore(blocks) = Len(blocks) THEN Ok("unit")
                       ELSE FromFileName(BlockFileName(blocks[WrittenBefore(blocks) + 1].id))]
    /\ UNCHANGED blocks
    /\ UNCHANGED <<ic_vars, su2_vars, geo_vars>>

BCNext ==
    \/ \E file_path \in Paths : AddBlock(file_path)
    \/ \E grid_dir \in {"grid"} : WriteBlocks(grid_dir)
    \/ \E i \in 1..MaxBlocks, file_name \in OutPaths : WriteBlock(i, file_name)

SpecBlocks == Init /\ [][BCNext]_vars


(***************************************************************************)
(* Calls of the geometry functions on vertices of a small lattice          *)
(***************************************************************************)
GeoPoints == { Vector3(x, y, 0) : x, y \in 0..(GeoSide - 1) }

\* the vertices at the given positions, with ids 0, 1, 2, ...
GeoVertices(positions) == [k \in 1..Len(positions) |-> GridVertex(positions[k], k - 1)]

\* up to four vertices anywhere on the lattice; longer lists on two points
GeoVertexLists ==
    { GeoVertices(ps) : ps \in SeqsUpTo(GeoPoints, 4) }
    \cup { GeoVertices(ps) :
              ps \in UNION { [1..k -> { Vector3(0, 0, 0), Vector3(1, 0, 0) }] :
                               k \in 5..MaxVertices } }

\* the interfaces between consecutive vertices, the last back to the first
EdgeInterfaces(vertices) ==
    [k \in 1..Len(vertices) |->
        NewFromVertices(<< vertices[k], vertices[(k % Len(vertices)) + 1] >>, k - 1).val]

\* GridInterface::compute_direction of the interface from a to b at a point
GeoComputeDirection ==
    \E a, b, p \in GeoPoints :
        geo_call' =
            [op |-> "compute_direction", a |-> a, b |-> b,
             iface |-> NewFromVertices(GeoVertices(<<a, b>>), 0).val,
             point |-> [sum |-> p, n |-> 1],
             ret |-> ComputeDirection(NewFromVertices(GeoVertices(<<a, b>>), 0).val,
                                      [sum |-> p, n |-> 1])]

\* GridInterface::new_from_vertices
GeoNewFromVertices ==
    \E vertices \in GeoVertexLists :
        geo_call' = [op |-> "new_from_vertices", vertices |-> vertices,
                     ret |-> NewFromVertices(vertices, 0)]

\* GridCell::new on the vertices and the interfaces between them
GeoCellNew ==
    \E vertices \in GeoVertexLists :
        geo_call' = [op |-> "cell_new", vertices |-> vertices,
                     ifaces |-> EdgeInterfaces(vertices),
                     ret |-> CellNew(EdgeInterfaces(vertices), vertices, 0)]

\* CellShape::volume on as many vertices as the shape has
GeoVolume ==
    \E vertices \in GeoVertexLists :
        /\ CellShapeFromNumberOfVertices(Len(vertices)).ok
        /\ geo_call' =
              [op |-> "volume", vertices |-> vertices,
               shape |-> CellShapeFromNumberOfVertices(Len(vertices)).val,
               ret |-> CellShapeVolume(CellShapeFromNumberOfVertices(Len(vertices)).val,
                                       vertices),
               reversed |-> CellShapeVolume(
                                CellShapeFromNumberOfVertices(Len(vertices)).val,
                                Reverse(vertices))]

\* the lists with the same elements in another order
Reorderings(s) ==
    { [i \in 1..Len(s) |-> s[f[i]]] :
        f \in { g \in [1..Len(s) -> 1..Len(s)] : \A i, j \in 1..Len(s) : g[i] = g[j] => i = j } }

\* hash on a list of vertex ids, and on every permutation of the list
HashCall ==
    \E vertex_ids \in SeqsUpTo(HashIds, MaxHashIds) :
        geo_call' = [op |-> "hash", vertex_ids |-> vertex_ids,
                     ret |-> HashDigits(vertex_ids),
                     permuted |-> { HashDigits(p) : p \in Reorderings(vertex_ids) }]

\* the four vertices of the tests of GridInterface
EqualityVertices ==
    GeoVertices(<< Vector3(0, 0, 0), Vector3(1, 0, 0), Vector3(0, 1, 0), Vector3(1, 1, 0) >>)

\* equal_to_vertices, and == through PartialEq, of an interface built from
\* two of the vertices on a list of the vertices
EqualToVerticesCall ==
    \E i, j \in DOMAIN EqualityVertices :
        /\ i # j
        /\ \E other \in SeqsUpTo({ EqualityVertices[k] : k \in DOMAIN EqualityVertices },
                               MaxOtherVertices) :
              LET face == NewFromVertices(<< EqualityVertices[i], EqualityVertices[j] >>, 1).val
              IN geo_call' = [op |-> "equal_to_vertices", face |-> face, other |-> other,
                              ret |-> EqualToVertices(face, other),
                              eq |-> EqualToVertices(face, other)]

(***************************************************************************)
(* finite_volume::util::Ids: the id lists of the objects one after the     *)
(* other in `ids`, the list of object i from offsets[i] to offsets[i+1]    *)
(***************************************************************************)
\* ids.extend(list) for every list in turn
RECURSIVE Extended(_)
Extended(lists) ==
    IF lists = <<>> THEN <<>> ELSE Head(lists) \o Extended(Tail(lists))

\* offsets.push(ids.len()) before every list
PushedOffsets(lists) ==
    [k \in 1..Len(lists) |-> Len(Extended(SubSeq(lists, 1, k - 1)))]

\* Ids::from_interfaces
FromInterfaces(ifaces) ==
    LET lists == [k \in 1..Len(ifaces) |-> ifaces[k].vertex_ids]
    IN [ids |-> Extended(lists),
        offsets |-> Append(PushedOffsets(lists), Len(Extended(lists)))]

\* Ids::from_cells: (vertex ids, interface ids); both lists of offsets end
\* with interface_ids.len()
FromCells(cells) ==
    LET vertex_lists    == [k \in 1..Len(cells) |-> cells[k].vertex_ids]
        interface_lists == [k \in 1..Len(cells) |-> CellInterfaceIds(cells[k])]
    IN << [ids |-> Extended(vertex_lists),
           offsets |-> Append(PushedOffsets(vertex_lists), Len(Extended(interface_lists)))],
          [ids |-> Extended(interface_lists),
           offsets |-> Append(PushedOffsets(interface_lists),
                              Len(Extended(interface_lists)))] >>

\* Index::index: &ids[offsets[index] .. offsets[index + 1]]; an offset past
\* the end of offsets, a range that ends before it starts or past the end
\* of ids panics
IdsIndex(table, index) ==
    IF index + 2 > Len(table.offsets) THEN Panic
    ELSE IF table.offsets[index + 1] > table.offsets[index + 2] THEN Panic
    ELSE IF table.offsets[index + 2] > Len(table.ids) THEN Panic
    ELSE Ok(SubSeq(table.ids, table.offsets[index + 1] + 1, table.offsets[index + 2]))

\* the files whose Blocks are given to Ids: the fixture, and up to MaxCells
\* cells on the four corners
IdsFiles ==
    { SquareSu2 } \cup { Su2File(2, 2, elems, <<>>) : elems \in SeqsUpTo(ElemLines, MaxCells) }

\* Ids::from_cells(block.cells()) and every table entry
FromCellsCall ==
    \E file \in IdsFiles :
        /\ ReadSu2(file, 0).ok
        /\ geo_call' =
              [op |-> "from_cells", file |-> file, cells |-> ReadSu2(file, 0).val.cells,
               vertex_ids |->
                   [i \in 1..Len(ReadSu2(file, 0).val.cells) |->
                       IdsIndex(FromCells(ReadSu2(file, 0).val.cells)[1], i - 1)],
               interface_ids |->
                   [i \in 1..Len(ReadSu2(file, 0).val.cells) |->
                       IdsIndex(FromCells(ReadSu2(file, 0).val.cells)[2], i - 1)]]

\* Ids::from_interfaces(block.interfaces()) and every table entry
FromInterfacesCall ==
    \E file \in IdsFiles :
        /\ ReadSu2(file, 0).ok
        /\ geo_call' =
              [op |-> "from_interfaces", file |-> file,
               interfaces |-> ReadSu2(file, 0).val.interfaces,
               vertex_ids |->
                   [i \in 1..Len(ReadSu2(file, 0).val.interfaces) |->
                       IdsIndex(FromInterfaces(ReadSu2(file, 0).val.interfaces), i - 1)]]

\* one call on fresh arguments in each behaviour
GeoNext ==
    /\ geo_call.op = "none"
    /\ \/ HashCall
       \/ EqualToVerticesCall
       \/ FromCellsCall
       \/ FromInterfacesCall
       \/ GeoComputeDirection
       \/ GeoNewFromVertices
       \/ GeoCellNew
       \/ GeoVolume
    /\ UNCHANGED <<ic_vars, su2_vars, bc_vars>>

SpecGeom == Init /\ [][GeoNext]_vars

(***************************************************************************)
(* Properties of the InterfaceCollection                                   *)
(***************************************************************************)
InterfaceCount == Cardinality(DOMAIN interfaces)

\* before the call recorded in ic_call, no interface had the vertex set of
\* its argument
EdgeWasNew ==
    ~ \E h \in DOMAIN interfaces :
        /\ interfaces[h].id < ic_call.len_before
        /\ Range(interfaces[h].vertex_ids) = Range(VertexIdsOf(ic_call.vertices))

TwoCallsSameEdge ==
    /\ ic_call.op = "add_or_retrieve"
    /\ ic_call'.op = "add_or_retrieve"
    /\ Range(VertexIdsOf(ic_call'.vertices)) = Range(VertexIdsOf(ic_call.vertices))

C1Step ==
    TwoCallsSameEdge =>
        /\ ic_call'.ret = ic_call.ret
        /\ InterfaceCount' = ic_call.len_before + (IF EdgeWasNew THEN 1 ELSE 0)

\* C1: two successive add_or_retrieve calls with the same two vertices, in
\* either order, return the same id, and over the two calls the number of
\* registered interfaces grows by one when the edge was new and by zero
\* when it was already registered.
C1_DedupIdempotence == [][C1Step]_vars

C2Inv ==
    LET n == InterfaceCount
    IN /\ {interfaces[h].id : h \in DOMAIN interfaces} = 0..(n - 1)
       /\ DOMAIN id_to_hash = 0..(n - 1)
       /\ \A i \in 0..(n - 1) : InterfaceWithId(i).id = i
       /\ Len(Interfaces) = n
       /\ \A i \in 0..(n - 1) : Interfaces[i + 1].id = i

C2Step ==
    /\ \A h \in DOMAIN interfaces :
           h \in DOMAIN interfaces' /\ interfaces'[h].id = interfaces[h].id
    /\ \A h \in DOMAIN interfaces' \ DOMAIN interfaces :
           interfaces'[h].id = InterfaceCount

\* C2: the ids of the registered interfaces are exactly 0..n-1; a newly
\* registered interface gets the collection size just before its insertion
\* as id, an assigned id never changes, interface_with_id(i) has id i and
\* interfaces() holds id i at position i.
C2_IdsDense == [](C2Inv) /\ [][C2Step]_vars

\* an interface was retrieved (not created) from a collection of two or more
C2_Witness ==
    /\ InterfaceCount >= 2
    /\ ic_call.op = "add_or_retrieve"
    /\ ic_call.ret.val < ic_call.len_before

\* C3: every call returns what a registry keyed by the sorted pair
\* (max id, min id) returns, and the interface a call returns has exactly
\* the vertex set of the call's argument (two different unordered pairs
\* never share an interface id).
C3_SortedPairEquivalence ==
    ic_call.op # "none" =>
        /\ ic_call.ret = ref_ret
        /\ ic_call.ret.ok =>
               Range(InterfaceWithId(ic_call.ret.val).vertex_ids)
                   = Range(VertexIdsOf(ic_call.vertices))

(***************************************************************************)
(* Properties of the BlockCollection                                       *)
(***************************************************************************)
\* C4: the block stored at position i has id i, so get_block(i).id() = i,
\* and a successful add_block gives the new block the collection length
\* just before the call as id.
C4_BlockIdIsPosition ==
    /\ \A i \in 0..(Len(blocks) - 1) : GetBlock(i).val.id = i
    /\ (bc_call.op = "add_block" /\ bc_call.ret.ok) =>
           /\ Len(blocks) = bc_call.len_before + 1
           /\ GetBlock(Len(blocks) - 1).val.id = bc_call.len_before

\* a third block was loaded after two others
C4_Witness ==
    /\ bc_call.op = "add_block"
    /\ bc_call.ret.ok
    /\ bc_call.len_before >= 2
    /\ Len(blocks) = bc_call.len_before + 1

C5Step ==
    bc_call'.op = "add_block" =>
        /\ Len(blocks') >= Len(blocks)
        /\ SubSeq(blocks', 1, Len(blocks)) = blocks
        /\ bc_call'.ret.ok => Len(blocks') = Len(blocks) + 1
        /\ ~bc_call'.ret.ok => blocks' = blocks

\* C5: a successful add_block appends exactly one block and leaves the
\* stored blocks unchanged; a failing add_block (unknown extension,
\* unreadable file, malformed content) leaves the collection as it was;
\* the number of blocks never decreases.
C5_AppendOnly == [][C5Step]_vars

\* an add_block failed on a collection that holds blocks
C5_Witness ==
    /\ bc_call.op = "add_block"
    /\ ~bc_call.ret.ok
    /\ Len(blocks) >= 1

(***************************************************************************)
(* Properties of the SU2 reader and writer                                 *)
(***************************************************************************)
Positions(block) == [k \in 1..Len(block.vertices) |-> block.vertices[k].pos]

CellVertexLists(block) == [k \in 1..Len(block.cells) |-> block.cells[k].vertex_ids]

InterfaceVertexSets(block) ==
    {Range(block.interfaces[k].vertex_ids) : k \in 1..Len(block.interfaces)}

\* for each tag, the vertex sets of its interfaces, in order
BoundaryVertexSets(block) ==
    [tag \in DOMAIN block.boundaries |->
        [k \in 1..Len(block.boundaries[tag]) |->
            Range(block.interfaces[block.boundaries[tag][k] + 1].vertex_ids)]]

RoundTripEqual(b, r) ==
    /\ Positions(r) = Positions(b)
    /\ CellVertexLists(r) = CellVertexLists(b)
    /\ InterfaceVertexSets(r) = InterfaceVertexSets(b)
    /\ BoundaryVertexSets(r) = BoundaryVertexSets(b)

\* C6: writing a Block and reading the written file back yields a Block
\* with the same vertex positions, cell vertex lists, set of interface
\* vertex sets and boundary tag to interface-vertex-set mapping.
C6_RoundTrip ==
    su2_pc = "read_back" =>
        /\ su2_reread.ok
        /\ RoundTripEqual(su2_block.val, su2_reread.val)

\* the vertex ids of the 24 interfaces of the fixture, in id order
SquareInterfaces ==
    << {0, 1}, {1, 5}, {5, 4}, {4, 0}, {1, 2}, {2, 6}, {6, 5}, {2, 3},
       {3, 7}, {7, 6}, {5, 9}, {9, 8}, {8, 4}, {6, 10}, {10, 9}, {7, 11},
       {11, 10}, {9, 13}, {13, 12}, {12, 8}, {10, 14}, {14, 13}, {11, 15},
       {15, 14} >>

SquareBoundaries ==
    [slip_wall_bottom |-> <<0, 4, 7>>, outflow |-> <<8, 15, 22>>,
     slip_wall_top |-> <<18, 21, 23>>, inflow |-> <<3, 12, 19>>]

\* C7: loading the 3x3 quadrilateral fixture yields 16 vertices with ids
\* 0..15, 24 interfaces with ids in first-declaration order, 9 cells,
\* dimensions 2 and the four boundaries of the test.
C7_SquareFixture ==
    (su2_file = SquareSu2 /\ su2_pc # "start") =>
        /\ su2_block.ok
        /\ Len(su2_block.val.vertices) = 16
        /\ \A k \in 1..16 : su2_block.val.vertices[k].id = k - 1
        /\ Len(su2_block.val.interfaces) = 24
        /\ \A k \in 1..24 :
               /\ su2_block.val.interfaces[k].id = k - 1
               /\ Range(su2_block.val.interfaces[k].vertex_ids) = SquareInterfaces[k]
        /\ Len(su2_block.val.cells) = 9
        /\ CellVertexLists(su2_block.val) = [k \in 1..9 |-> Tail(SquareCells[k].toks)]
        /\ su2_block.val.dimensions = 2
        /\ su2_block.val.boundaries = SquareBoundaries

C7_Witness == su2_file = SquareSu2 /\ su2_pc = "loaded"

Loaded == su2_pc # "start" /\ su2_block.ok

\* C8: in every Block produced by read_su2, the interface ids of the cell
\* faces and of the boundaries index the interfaces, and the vertex ids of
\* the cells and of the interfaces index the vertices.
C8_ReferentialIntegrity ==
    Loaded =>
        LET b == su2_block.val
        IN /\ \A c \in Range(b.cells) :
                  /\ \A f \in Range(c.interfaces) : f.interface \in 0..(Len(b.interfaces) - 1)
                  /\ \A v \in Range(c.vertex_ids) : v \in 0..(Len(b.vertices) - 1)
           /\ \A i \in Range(b.interfaces) :
                  \A v \in Range(i.vertex_ids) : v \in 0..(Len(b.vertices) - 1)
           /\ \A tag \in DOMAIN b.boundaries :
                  \A id \in Range(b.boundaries[tag]) : id \in 0..(Len(b.interfaces) - 1)

\* a block with two cells and a boundary edge was produced
C8_Witness ==
    /\ Loaded
    /\ Len(su2_block.val.cells) = 2
    /\ \E tag \in DOMAIN su2_block.val.boundaries : su2_block.val.boundaries[tag] # <<>>

\* the cells of the block that have the interface as a face
CellsWithFace(block, id) ==
    {k \in 1..Len(block.cells) :
        \E f \in Range(block.cells[k].interfaces) : f.interface = id}

\* C9: each interface id listed under a boundary tag is a face
\* of exactly one cell of the block.
C9_BoundaryFaceOfExactlyOneCell ==
    Loaded =>
        \A tag \in DOMAIN su2_block.val.boundaries :
            \A id \in Range(su2_block.val.boundaries[tag]) :
                Cardinality(CellsWithFace(su2_block.val, id)) = 1

\* the boundary lines of the file, by tag (for a repeated tag, those of
\* its last group)
FileBoundaryFaces == ReadLoop(su2_file, 1, InitialReadState).val.boundary_faces

\* C10: for every MARKER_TAG group of the file (the last one of its tag),
\* boundaries[tag] has MARKER_ELEMS entries in file order and entry k is
\* the id of the interface whose set of vertex ids equals the set of
\* vertex ids on the k-th boundary line of the group.
C10_BoundaryEntriesMatchLines ==
    Loaded =>
        LET b == su2_block.val
        IN /\ DOMAIN b.boundaries = DOMAIN FileBoundaryFaces
           /\ \A tag \in DOMAIN b.boundaries :
                  /\ Len(b.boundaries[tag]) = Len(FileBoundaryFaces[tag])
                  /\ \A k \in 1..Len(b.boundaries[tag]) :
                         Range(b.interfaces[b.boundaries[tag][k] + 1].vertex_ids)
                             = Range(Tail(FileBoundaryFaces[tag][k]))

\* C11: in every Block produced by read_su2 the vertex stored at position i
\* has id i, for every i from 0 to the number of vertices - 1
C11_VertexIdsDense ==
    Loaded =>
        \A k \in 1..Len(su2_block.val.vertices) :
            su2_block.val.vertices[k].id = k - 1

\* the positions of the header lines with the given key
Headers(lines, key) == { k \in 1..Len(lines) : lines[k].k = key }

NpoinBeforeNdime(lines) ==
    \E k \in Headers(lines, "NPOIN") : \A j \in Headers(lines, "NDIME") : j > k

NoNelemSection(lines) == Headers(lines, "NELEM") = {}

\* a counted section whose declared lines run past the end of the file, or
\* an NMARK section with fewer complete groups than it declares
EndsMidSection(lines) ==
    \/ \E k \in Headers(lines, "NPOIN") \cup Headers(lines, "NELEM")
                \cup Headers(lines, "MARKER_ELEMS") :
           k + lines[k].n > Len(lines)
    \/ \E k \in Headers(lines, "NMARK") :
           \/ Cardinality({ j \in Headers(lines, "MARKER_TAG") : j > k }) < lines[k].n
           \/ Cardinality({ j \in Headers(lines, "MARKER_ELEMS") : j > k }) < lines[k].n

\* the vertex sets of the edges of the element lines of the file
FileCellEdges(lines) ==
    UNION { { Range(e) : e \in Range(CellShapeInterfaces(
                                     CellShapeFromSu2ElementType(lines[j].toks[1]).val,
                                     Tail(lines[j].toks)).val) } :
            j \in { j \in 1..Len(lines) :
                      \E k \in Headers(lines, "NELEM") : k < j /\ j <= k + lines[k].n } }

\* the vertex sets of the edge lines of the markers of the file
FileBoundaryEdges(lines) ==
    { Range(Tail(lines[j].toks)) :
        j \in { j \in 1..Len(lines) :
                  \E k \in Headers(lines, "MARKER_ELEMS") : k < j /\ j <= k + lines[k].n } }

UnmatchedBoundaryEdge(lines) ==
    /\ ~EndsMidSection(lines)
    /\ lines \in { MarkedFile(face) : face \in BoundaryLines \cup { <<3, 1, 3>> } }
    /\ FileBoundaryEdges(lines) \ FileCellEdges(lines) # {}

Malformed(lines) ==
    \/ NpoinBeforeNdime(lines)
    \/ EndsMidSection(lines)
    \/ NoNelemSection(lines)
    \/ UnmatchedBoundaryEdge(lines)

\* C12: a file that has NPOIN before NDIME, ends inside a counted section,
\* has no NELEM section, or marks an edge whose vertex set is no cell's edge,
\* makes read_su2 fail: no Block is produced
C12_MalformedAborts ==
    (su2_pc # "start" /\ Malformed(su2_file)) => ~su2_block.ok

\* C12 without its last case: the three cases about the sections of the file
C12_MalformedSectionsAbort ==
    (su2_pc # "start"
       /\ (NpoinBeforeNdime(su2_file) \/ EndsMidSection(su2_file)
              \/ NoNelemSection(su2_file)))
    => ~su2_block.ok

\* the result from_file_name must give for a path
ExpectedFileType(file_path) ==
    IF file_path.ext = Some("su2") THEN Ok("Su2")
    ELSE IF file_path.ext = Some("grid") THEN Ok("Native")
    ELSE IF file_path.ext.some
    THEN Err([name |-> file_path, ext |-> Some(file_path.ext.val)])
    ELSE Err([name |-> file_path, ext |-> None])

\* C13: from_file_name gives Su2 exactly for the extension "su2" and Native
\* exactly for "grid"; any other extension gives UnknownFileType with the path
\* and Some(extension), no extension gives UnknownFileType with the path and
\* None; add_block and write_block on such a path return that error and
\* neither open nor create a file
C13_FileTypeRecognition ==
    bc_call.op \in {"add_block", "write_block"} =>
        /\ bc_call.file_type = ExpectedFileType(bc_call.path)
        /\ (bc_call.file_type = Ok("Su2")) <=> (bc_call.path.ext = Some("su2"))
        /\ (bc_call.file_type = Ok("Native")) <=> (bc_call.path.ext = Some("grid"))
        /\ ~bc_call.file_type.ok =>
              /\ bc_call.ret = bc_call.file_type
              /\ bc_call.op = "add_block" => bc_call.opened = None
              /\ bc_call.op = "write_block" => bc_call.created = None

\* write_block was called on a loaded block with a path ending in .txt
C13_Witness ==
    /\ bc_call.op = "write_block"
    /\ bc_call.path.ext = Some("txt")
    /\ ~bc_call.ret.ok
    /\ Len(blocks) >= 1

(***************************************************************************)
(* Properties of the geometry functions.  On the lattice a dot product     *)
(* (p - c) . n is a multiple of 1 / (2 k |n|) for a centroid of k vertices,*)
(* so it is below the tolerance 1e-14 exactly when it is 0.                *)
(***************************************************************************)
Labels == {"Inwards", "Outwards"}

\* (p - c) . n times the positive factor 2 k |b - a|, for the interface from
\* a to b, c = (a + b) / 2, n = (b - a) x (0,0,1), p = point.sum / point.n
SideOf(a, b, point) ==
    Dot(VSub(VScale(2, point.sum), VScale(point.n, VAdd(a, b))),
        Cross(VSub(b, a), <<0, 0, 1>>))

\* the positions of the two vertices of edge k of the cell_new call
EdgeFrom(call, k) == call.vertices[k].pos
EdgeTo(call, k) == call.vertices[(k % Len(call.vertices)) + 1].pos

CellCentroid(call) == [sum |-> SumPos(call.vertices), n |-> Len(call.vertices)]

\* C14: compute_direction returns Inwards when (p - c) . n > 0, Outwards
\* when (p - c) . n < 0, and panics when the dot product is within the
\* tolerance; a result is one of the two labels; GridCell::new either gives
\* every supplied interface one label or fails as a whole
C14_OrientationTotality ==
    /\ (geo_call.op = "compute_direction" /\ geo_call.a # geo_call.b) =>
          /\ SideOf(geo_call.a, geo_call.b, geo_call.point) > 0
                => geo_call.ret = Ok("Inwards")
          /\ SideOf(geo_call.a, geo_call.b, geo_call.point) < 0
                => geo_call.ret = Ok("Outwards")
          /\ SideOf(geo_call.a, geo_call.b, geo_call.point) = 0
                => ~geo_call.ret.ok
    /\ (geo_call.op = "compute_direction" /\ geo_call.ret.ok) =>
          geo_call.ret.val \in Labels
    /\ (geo_call.op = "cell_new" /\ geo_call.ret.ok) =>
          /\ Len(geo_call.ret.val.interfaces) = Len(geo_call.ifaces)
          /\ \A k \in 1..Len(geo_call.ifaces) :
                /\ geo_call.ret.val.interfaces[k].interface = geo_call.ifaces[k].id
                /\ geo_call.ret.val.interfaces[k].direction \in Labels
                /\ EdgeFrom(geo_call, k) # EdgeTo(geo_call, k) =>
                      geo_call.ret.val.interfaces[k].direction =
                          IF SideOf(EdgeFrom(geo_call, k), EdgeTo(geo_call, k),
                                    CellCentroid(geo_call)) > 0
                          THEN "Inwards" ELSE "Outwards"
    /\ (geo_call.op = "cell_new"
          /\ \E k \in 1..Len(geo_call.ifaces) :
                /\ EdgeFrom(geo_call, k) # EdgeTo(geo_call, k)
                /\ SideOf(EdgeFrom(geo_call, k), EdgeTo(geo_call, k),
                          CellCentroid(geo_call)) = 0) =>
          ~geo_call.ret.ok

\* GridCell::new labelled the four interfaces of a quadrilateral, some
\* Inwards and some Outwards
C14_Witness ==
    /\ geo_call.op = "cell_new"
    /\ geo_call.ret.ok
    /\ Len(geo_call.ret.val.interfaces) = 4
    /\ \E j, k \in 1..4 :
          /\ geo_call.ret.val.interfaces[j].direction = "Inwards"
          /\ geo_call.ret.val.interfaces[k].direction = "Outwards"

X(vertices, k) == vertices[k + 1].pos[1]
Y(vertices, k) == vertices[k + 1].pos[2]

\* twice the volume the claim gives for a triangle and for a quadrilateral
TriangleFormula(v) ==
    Abs(X(v, 0) * (Y(v, 1) - Y(v, 2)) + X(v, 1) * (Y(v, 2) - Y(v, 0))
          + X(v, 2) * (Y(v, 0) - Y(v, 1)))

QuadFormula(v) ==
    Abs((X(v, 0) * Y(v, 1) + X(v, 1) * Y(v, 2) + X(v, 2) * Y(v, 3) + X(v, 3) * Y(v, 0))
          - (X(v, 1) * Y(v, 0) + X(v, 2) * Y(v, 1) + X(v, 3) * Y(v, 2)
               + X(v, 0) * Y(v, 3)))

ShapeFormula(shape, v) ==
    IF shape = "Triangle" THEN TriangleFormula(v) ELSE QuadFormula(v)

\* (b - a) x (c - a): 0 when a, b, c are collinear
Orient(a, b, c) == (b[1] - a[1]) * (c[2] - a[2]) - (b[2] - a[2]) * (c[1] - a[1])

PairwiseDistinct(v) == \A j, k \in 1..Len(v) : j # k => v[j].pos # v[k].pos

AllCollinear(v) == \A k \in 1..Len(v) : Orient(v[1].pos, v[2].pos, v[k].pos) = 0

NonDegenerate(v) == PairwiseDistinct(v) /\ ~AllCollinear(v)

\* c lies on the segment from a to b
OnSegment(a, b, c) ==
    /\ Orient(a, b, c) = 0
    /\ (c[1] - a[1]) * (c[1] - b[1]) <= 0
    /\ (c[2] - a[2]) * (c[2] - b[2]) <= 0

\* the segments from a to b and from c to d share a point
SegmentsMeet(a, b, c, d) ==
    \/ Orient(a, b, c) * Orient(a, b, d) < 0 /\ Orient(c, d, a) * Orient(c, d, b) < 0
    \/ OnSegment(a, b, c) \/ OnSegment(a, b, d)
    \/ OnSegment(c, d, a) \/ OnSegment(c, d, b)

\* a quadrilateral whose opposite edges share no point
SimpleQuad(v) ==
    /\ ~SegmentsMeet(v[1].pos, v[2].pos, v[3].pos, v[4].pos)
    /\ ~SegmentsMeet(v[2].pos, v[3].pos, v[4].pos, v[1].pos)

\* the formula of the shape is used, the volume is not negative and is the
\* same on the reversed vertices; in units of half a lattice step the unit
\* square gives 1 and the triangle (0,0),(1,0),(0.5,1) gives 0.5
VolumeFormulaUsed ==
    /\ geo_call.op = "volume" =>
          /\ geo_call.ret = ShapeFormula(geo_call.shape, geo_call.vertices)
          /\ geo_call.ret >= 0
          /\ geo_call.reversed = geo_call.ret
          /\ Positions(geo_call) = << <<0, 0, 0>>, <<2, 0, 0>>, <<2, 2, 0>>, <<0, 2, 0>> >>
                => geo_call.ret = 2 * 4 * 1
          /\ Positions(geo_call) = << <<0, 0, 0>>, <<2, 0, 0>>, <<1, 2, 0>> >>
                => 2 * geo_call.ret = 2 * 4 * 1
    /\ (geo_call.op = "cell_new" /\ geo_call.ret.ok) =>
          /\ geo_call.ret.val.volume_x2
                = ShapeFormula(geo_call.ret.val.shape, geo_call.vertices)
          /\ geo_call.ret.val.volume_x2 >= 0

FileElements(lines) ==
    LET k == CHOOSE k \in Headers(lines, "NELEM") : TRUE
    IN [j \in 1..lines[k].n |-> lines[k + j].toks]

\* the vertex sets of the edges of an element line, in the pattern order of
\* its element type: 5 is a triangle, 9 a quadrilateral
PatternEdges(toks) ==
    IF toks[1] = 5
    THEN << {toks[2], toks[3]}, {toks[3], toks[4]}, {toks[4], toks[2]} >>
    ELSE << {toks[2], toks[3]}, {toks[3], toks[4]}, {toks[4], toks[5]},
            {toks[5], toks[2]} >>

\* the faces of the cell are the interfaces of the edges of the element
\* line, in pattern order
FacesFollowPattern(block, cell, toks) ==
    /\ Len(cell.interfaces) = Len(PatternEdges(toks))
    /\ \A j \in 1..Len(cell.interfaces) :
          /\ cell.interfaces[j].interface < Len(block.interfaces)
          /\ Range(block.interfaces[cell.interfaces[j].interface + 1].vertex_ids)
                = PatternEdges(toks)[j]

\* C17: the faces of every cell are the interfaces of the edges of its
\* element line in the pattern order ({v0,v1},{v1,v2},{v2,v0} for a
\* triangle, {v0,v1},{v1,v2},{v2,v3},{v3,v0} for a quadrilateral); cells
\* are in file order and cell i has id i
C17_FacesInPatternOrder ==
    Loaded =>
        /\ Len(su2_block.val.cells) = Len(FileElements(su2_file))
        /\ \A i \in 1..Len(su2_block.val.cells) :
              /\ su2_block.val.cells[i].id = i - 1
              /\ FacesFollowPattern(su2_block.val, su2_block.val.cells[i],
                                    FileElements(su2_file)[i])

\* C17 on the files that have their points in one NPOIN section
C17_OneSectionFiles ==
    (Loaded /\ Cardinality(Headers(su2_file, "NPOIN")) = 1) => C17_FacesInPatternOrder

\* the id add_or_retrieve returned for the pair when it was registered: the
\* id of the interface stored under the hash of the pair
AssignedId(vertices) == interfaces[Hash(VertexIdsOf(vertices))].id

C18Step ==
    ic_call'.op = "find_interface" =>
        /\ SortedPair(ic_call'.vertices) \in DOMAIN ref_reg
              => ic_call'.ret = Ok(AssignedId(ic_call'.vertices))
        /\ SortedPair(ic_call'.vertices) \notin DOMAIN ref_reg
              => ~ic_call'.ret.ok
        /\ interfaces' = interfaces
        /\ id_to_hash' = id_to_hash

\* C18: find_interface returns the id add_or_retrieve assigned to the same
\* unordered vertex pair, fails when no interface with that vertex set was
\* registered, and leaves the registered interfaces and their ids unchanged
C18_FindReturnsAssignedId == [][C18Step]_vars

\* C19: lines that start with none of the four keys, inserted at a place
\* outside the counted lines of the sections, leave the Block that read_su2
\* produces unchanged
C19_UnrecognizedLinesSkipped ==
    su2_pc # "start" =>
        \A file \in PadBases : \A p \in OutsidePlaces(file) : \A pad \in Pads :
            su2_file = InsertAt(file, p, pad) => su2_block = ReadSu2(file, 0)

\* a file with two lines inserted between its points and its NELEM line
\* was read into a Block
C19_Witness ==
    /\ Loaded
    /\ \E pad \in Pads :
          /\ Len(pad) = 2
          /\ su2_file = InsertAt(MarkedFile(<<3, 0, 1>>), 3 + Len(Corners), pad)
    /\ Len(su2_block.val.cells) = 2

\* C20: in every Block produced by read_su2 each interface is a face of at
\* least one and at most two cells
C20_InterfaceOfOneOrTwoCells ==
    Loaded =>
        \A id \in 0..(Len(su2_block.val.interfaces) - 1) :
            Cardinality(CellsWithFace(su2_block.val, id)) \in {1, 2}

RECURSIVE MarkerGroupsAt(_, _, _, _, _)
MarkerGroupsAt(w, i, left, block, seen) ==
    IF left = 0 THEN i = Len(w) + 1
    ELSE /\ i + 1 <= Len(w)
         /\ w[i].k = "MARKER_TAG"
         /\ w[i].tag \in DOMAIN block.boundaries \ seen
         /\ w[i + 1] = KeyLine("MARKER_ELEMS", Len(block.boundaries[w[i].tag]))
         /\ i + 1 + w[i + 1].n <= Len(w)
         /\ \A j \in 1..w[i + 1].n :
               w[i + 1 + j] =
                   Nums(<<3>> \o block.interfaces[block.boundaries[w[i].tag][j] + 1].vertex_ids)
         /\ MarkerGroupsAt(w, i + 2 + w[i + 1].n, left - 1, block, seen \cup {w[i].tag})

\* the layout of the file written for the block: nv vertices, nc cells
WrittenLayout(w, block, nv, nc) ==
    /\ Len(w) >= 4 + nv + nc
    /\ w[1] = KeyLine("NDIME", block.dimensions)
    /\ w[2] = KeyLine("NPOIN", nv)
    /\ \A k \in 1..nv :
          /\ w[2 + k].k = "nums"
          /\ Len(w[2 + k].toks) = IF block.dimensions = 3 THEN 3 ELSE 2
          /\ \A c \in 1..Len(w[2 + k].toks) : w[2 + k].toks[c] = block.vertices[k].pos[c]
    /\ w[3 + nv] = KeyLine("NELEM", nc)
    /\ \A k \in 1..nc :
          /\ w[3 + nv + k].k = "nums"
          /\ Head(w[3 + nv + k].toks) \in {5, 9}
          /\ Tail(w[3 + nv + k].toks) = block.cells[k].vertex_ids
    /\ w[4 + nv + nc] = KeyLine("NMARK", Cardinality(DOMAIN block.boundaries))
    /\ MarkerGroupsAt(w, 5 + nv + nc, Cardinality(DOMAIN block.boundaries), block, {})

\* C22: write_su2 writes NDIME, NPOIN, NELEM, NMARK in this order and every
\* count is the number of data lines after it: one coordinate line per
\* vertex (3 numbers when dimensions is 3, else 2), one line 5|9 v.. per
\* cell, one group per boundary tag, one line 3 v.. per interface of a tag
C22_WrittenLayout ==
    su2_pc \in {"written", "read_back"} =>
        WrittenLayout(su2_written, su2_block.val,
                      Len(su2_block.val.vertices), Len(su2_block.val.cells))

\* a 2D block of two cells with two boundary tags was written
C22_Witness ==
    /\ su2_pc = "written"
    /\ Cardinality(DOMAIN su2_block.val.boundaries) = 2
    /\ Len(su2_block.val.cells) = 2
    /\ su2_block.val.dimensions = 2

\* the ids of the list in descending order
Descending(ids) ==
    CHOOSE d \in Reorderings(ids) : \A i \in 1..(Len(d) - 1) : d[i] >= d[i + 1]

\* the digits of the integer whose decimal representation is the
\* concatenation of the ids in descending order
RECURSIVE DigitsOfAll(_)
DigitsOfAll(ids) ==
    IF ids = <<>> THEN <<>> ELSE UsizeToString(Head(ids)) \o DigitsOfAll(Tail(ids))

ExpectedKey(ids) == StripZeros(DigitsOfAll(Descending(ids)))

\* C23: the key of a list of vertex ids is the integer whose decimal
\* representation is the concatenation of the ids sorted in descending
\* order; it is the same for every permutation of the list; the key of
\* [0, 1, 11] is 1110
C23_KeyIsDescendingConcatenation ==
    (geo_call.op = "hash" /\ geo_call.vertex_ids # <<>>) =>
        /\ geo_call.ret = Ok(ExpectedKey(geo_call.vertex_ids))
        /\ geo_call.permuted = { geo_call.ret }
        /\ geo_call.vertex_ids = <<0, 1, 11>> => geo_call.ret = Ok(<<1, 1, 1, 0>>)

\* the calls of hash on the two vertex ids 1 and 11, in either order
OneEleven == geo_call.op = "hash" /\ geo_call.vertex_ids \in {<<1, 11>>, <<11, 1>>}

\* C24: the key computed for the two vertex ids {1, 11} is 1110
C24_KeyOfOneElevenIs1110 == OneEleven => geo_call.ret = Ok(<<1, 1, 1, 0>>)

\* C24, amended: the key computed for the two vertex ids {1, 11} is 111
\* (11 then 1, concatenated)
C24_KeyOfOneElevenIs111 == OneEleven => geo_call.ret = Ok(<<1, 1, 1>>)

\* hash returned a key for the list [1, 11]
C24_Witness == geo_call.op = "hash" /\ geo_call.vertex_ids = <<1, 11>> /\ geo_call.ret.ok

\* on ids of at most two digits the key is the descending concatenation
KeyOfSmallIds ==
    (geo_call.op = "hash" /\ geo_call.vertex_ids # <<>>
        /\ \A i \in DOMAIN geo_call.vertex_ids : geo_call.vertex_ids[i] < 100) =>
        /\ geo_call.ret = Ok(ExpectedKey(geo_call.vertex_ids))
        /\ geo_call.permuted = { geo_call.ret }
        /\ geo_call.vertex_ids = <<0, 1, 11>> => geo_call.ret = Ok(<<1, 1, 1, 0>>)

\* the set of the ids of a list of vertices
IdsOf(vertices) == { vertices[k].id : k \in DOMAIN vertices }

\* C25: equal_to_vertices(L), and I == L, is true exactly when the set of
\* the ids in L equals the set of the vertex ids of I, in any order of L;
\* it is false when L holds a proper subset of the vertices of I, repeats
\* one vertex of I, or is empty
C25_EqualIsSetEquality ==
    geo_call.op = "equal_to_vertices" =>
        /\ geo_call.ret = (IdsOf(geo_call.other) = Range(geo_call.face.vertex_ids))
        /\ geo_call.eq = geo_call.ret

\* C26: the Block read from a file does not depend on the relative order of
\* the NPOIN, NELEM and NMARK sections, as long as NDIME precedes NPOIN:
\* every order of the sections gives the Block of the usual order
C26_SectionOrderIrrelevant ==
    (su2_pc # "start" /\ su2_file \in ReorderedFiles) =>
        \A sections \in ReorderBases, order \in SectionOrders :
            su2_file = Assemble(sections, order) =>
                /\ su2_block.ok
                /\ su2_block = ReadSu2(Assemble(sections, UsualOrder), 0)

\* a file with NMARK before NELEM and NELEM before NDIME and NPOIN was
\* read into a Block with cells and boundaries
C26_Witness ==
    /\ su2_pc = "loaded"
    /\ \E sections \in ReorderBases :
          su2_file = Assemble(sections, << "NMARK", "NELEM", "NDIME", "NPOIN" >>)
    /\ Len(su2_block.val.cells) = 2
    /\ DOMAIN su2_block.val.boundaries = {"a", "b"}

\* C27: the two tables of Ids::from_cells hold, at every index i, the
\* vertex ids and the interface ids of cell i, the last cell and cells
\* with other numbers of faces than vertices included; the table of
\* Ids::from_interfaces holds the vertex ids of interface i
C27_IdsTablesMatchObjects ==
    /\ geo_call.op = "from_cells" =>
          \A i \in DOMAIN geo_call.cells :
              /\ geo_call.vertex_ids[i] = Ok(geo_call.cells[i].vertex_ids)
              /\ geo_call.interface_ids[i] = Ok(CellInterfaceIds(geo_call.cells[i]))
    /\ geo_call.op = "from_interfaces" =>
          \A i \in DOMAIN geo_call.interfaces :
              geo_call.vertex_ids[i] = Ok(geo_call.interfaces[i].vertex_ids)

\* the tables are right for the cells that have as many faces as vertices
IdsOfRegularCells ==
    (/\ geo_call.op = "from_cells"
     /\ \A i \in DOMAIN geo_call.cells :
            Len(geo_call.cells[i].vertex_ids) = Len(geo_call.cells[i].interfaces)) =>
        \A i \in DOMAIN geo_call.cells :
            /\ geo_call.vertex_ids[i] = Ok(geo_call.cells[i].vertex_ids)
            /\ geo_call.interface_ids[i] = Ok(CellInterfaceIds(geo_call.cells[i]))

\* the block with its id left out of the comparison
ExceptId(block) == [block EXCEPT !.id = 0]

\* a step in which add_block loads a file into a new block
Loads(file_path) ==
    /\ bc_call'.op = "add_block"
    /\ bc_call'.path = file_path
    /\ bc_call'.ret.ok
    /\ Len(blocks') = Len(blocks) + 1

\* the block of a load equals, except for its id, the block the same file
\* gives in an empty collection, and the block of the load just before it
\* when that was a load of the same file
C28Step ==
    \A file_path \in Paths :
        Loads(file_path) =>
            /\ LET first == ReadBlockFile(file_path, NumberBlocks(<<>>))
               IN /\ first.ok
                  /\ ExceptId(blocks'[Len(blocks')]) = ExceptId(first.val)
            /\ (/\ bc_call.op = "add_block"
                /\ bc_call.path = file_path
                /\ bc_call.ret.ok) =>
                   /\ ExceptId(blocks'[Len(blocks')]) = ExceptId(blocks[Len(blocks)])
                   /\ blocks'[Len(blocks')].id # blocks[Len(blocks)].id

C29_ShapeMatchesElementType ==
    Loaded =>
        /\ Len(su2_block.val.cells) = Len(FileElements(su2_file))
        /\ \A i \in 1..Len(su2_block.val.cells) :
              LET cell == su2_block.val.cells[i]
              IN /\ Len(cell.interfaces) = Len(cell.vertex_ids)
                 /\ Len(cell.vertex_ids) = NumberOfVertices(cell.shape)
                 /\ Ok(cell.shape) = CellShapeFromSu2ElementType(FileElements(su2_file)[i][1])

\* the counts and the shape agree on the files whose element lines carry as
\* many vertex ids as their element type has vertices
ElementLinesOfRightLength ==
    (Loaded /\ \A i \in DOMAIN FileElements(su2_file) :
                  Len(FileElements(su2_file)[i]) =
                      IF FileElements(su2_file)[i][1] = 5 THEN 4 ELSE 5)
        => C29_ShapeMatchesElementType

\* the positions of the points an element line lists, in the listed order
ElementPoints(block, toks) ==
    [k \in 1..(Len(toks) - 1) |-> block.vertices[toks[k + 1] + 1].pos]

\* every corner turns to the left: the points are the corners of a convex
\* polygon in counter-clockwise order
ConvexCcw(points) ==
    /\ Len(points) >= 3
    /\ \A k \in 1..Len(points) :
          Orient(points[k], points[(k % Len(points)) + 1],
                 points[((k + 1) % Len(points)) + 1]) > 0

\* a file with one NELEM section whose element lines have the length of
\* their element type and list convex cells counter-clockwise
ConvexCcwFile ==
    /\ Loaded
    /\ Cardinality(Headers(su2_file, "NELEM")) = 1
    /\ Len(su2_block.val.cells) = Len(FileElements(su2_file))
    /\ \A i \in DOMAIN FileElements(su2_file) :
          /\ Len(FileElements(su2_file)[i]) =
                IF FileElements(su2_file)[i][1] = 5 THEN 4 ELSE 5
          /\ ConvexCcw(ElementPoints(su2_block.val, FileElements(su2_file)[i]))

\* the cells, by position, that have the interface among their faces
CellsWith(block, id) ==
    { i \in DOMAIN block.cells :
        \E k \in DOMAIN block.cells[i].interfaces :
            block.cells[i].interfaces[k].interface = id }

\* the first cell with the interface labels it Outwards, every other cell
\* with it Inwards
FirstOutwardsOthersInwards(block) ==
    \A id \in 0..(Len(block.interfaces) - 1) :
        \A i \in CellsWith(block, id) :
            \A k \in DOMAIN block.cells[i].interfaces :
                block.cells[i].interfaces[k].interface = id =>
                    block.cells[i].interfaces[k].direction =
                        IF \A j \in CellsWith(block, id) : i <= j
                        THEN "Outwards" ELSE "Inwards"

\* C30: in a Block read from a file whose cells are convex and listed
\* counter-clockwise, every interface is labelled Outwards by the cell that
\* first declared it and Inwards by the other adjacent cell
C30_FirstOutwardsOtherInwards ==
    ConvexCcwFile => FirstOutwardsOthersInwards(su2_block.val)

\* the edges of an element line as pairs (from, to) of point indices
DirectedEdges(toks) ==
    { << toks[k + 1], toks[(k % (Len(toks) - 1)) + 2] >> : k \in 1..(Len(toks) - 1) }

\* no edge is walked in the same direction by two cells
NoEdgeWalkedTwice(elems) ==
    \A i, j \in DOMAIN elems :
        i # j => DirectedEdges(elems[i]) \cap DirectedEdges(elems[j]) = {}

\* first Outwards, then Inwards, on the files with one NPOIN section in which
\* no two cells walk an edge in the same direction
DirectionsOnProperMeshes ==
    (/\ ConvexCcwFile
     /\ Cardinality(Headers(su2_file, "NPOIN")) = 1
     /\ NoEdgeWalkedTwice(FileElements(su2_file)))
        => FirstOutwardsOthersInwards(su2_block.val)

====
